---- MODULE Spec2Model ----
(***************************************************************************)
(* Model of vimeo_uploader: the pipeline driver (src/core/driver.py) and   *)
(* the desktop form's submit handler (src/gui/ui.py).                      *)
(*                                                                         *)
(* The state is the driver's working-directory config, the local storage   *)
(* (the set of paths that exist), the position of the running `process`    *)
(* call with its locals, the record of collaborator calls made by that     *)
(* call, and the submit button of the form.  The download client, the      *)
(* transcode engine and the upload client are external: each call to one   *)
(* of them returns or raises, chosen nondeterministically.                 *)
(***************************************************************************)
EXTENDS Integers, Sequences, FiniteSets, TLC

VARIABLES
    app_directory_config, \* Driver.app_directory_config (None or the videos_dir it carries)
    fs,                   \* local storage: the set of existing paths
    fs0,                  \* local storage as it was when the current run of process began
    runs,                 \* number of process runs started so far
    caller,               \* who called process: "main", "client" or "gui"
    pc,                   \* position of the current run inside Driver.process
    video_config,         \* the VideoConfiguration given to process
    today,                \* the date read by date.today() in this run (NoDate if not read)
    title,                \* local `title` of process after sanitization
    uri,                  \* local `uri` of process
    calls,                \* collaborator calls of the current run, in order
    error,                \* the exception that left process (None if none)
    process_button,       \* the form's submit Button: [state, text]
    gui_pc                \* position of the form: "ready", "handler" or "returned"

vars == <<app_directory_config, fs, fs0, runs, caller, pc, video_config, today,
          title, uri, calls, error, process_button, gui_pc>>

(***************************************************************************)
(* Bounds of the model.                                                    *)
(***************************************************************************)
MaxSec == 1    \* start and end seconds range over 0..MaxSec
MaxRuns == 2   \* process is run at most MaxRuns times on the same storage

(***************************************************************************)
(* Values.                                                                 *)
(***************************************************************************)
None == "<None>"                       \* Python's None

Truthy(s) == s # None /\ s # ""        \* truth value of an optional string

VideoIds == {"abc123"}
Resolutions == {"1080p"}
Titles == {None, "", "Sunday Service"}
Images == {None, "", "thumb.jpg"}
Dates == {[year |-> 2026, month |-> 11, day |-> 1],
          [year |-> 2009, month |-> 3, day |-> 15]}
VideosDir == "videos"                  \* AppDirectoryConfiguration.videos_dir

VideoConfigurations ==
    [video_id : VideoIds, start_time_in_sec : 0..MaxSec, end_time_in_sec : 0..MaxSec,
     image_url : Images, resolution : Resolutions, video_title : Titles]

NoRequest == [video_id |-> "", start_time_in_sec |-> 0, end_time_in_sec |-> 0,
              image_url |-> None, resolution |-> "", video_title |-> None]

(***************************************************************************)
(* Pure helpers of Driver.process.                                         *)
(***************************************************************************)
Digit == <<"0", "1", "2", "3", "4", "5", "6", "7", "8", "9">>

\* "%02d" of a number below 100
TwoDigits(n) == Digit[(n \div 10) + 1] \o Digit[(n % 10) + 1]

\* strftime with day and month exchanged ("%d/%m/%y")
strftime_dmy(d) ==
    TwoDigits(d.day) \o "/" \o TwoDigits(d.month) \o "/" \o TwoDigits(d.year % 100)

\* today.strftime("%m/%d/%y")
strftime_mdy(d) ==
    TwoDigits(d.month) \o "/" \o TwoDigits(d.day) \o "/" \o TwoDigits(d.year % 100)

\* the condition of the sanitization `if title is None or not title`
TitleMissing(t) == t = None \/ t = ""

\* the sanitized title
DefaultTitle(d) == "(CW) " \o strftime_mdy(d)

\* os.path.join
path_join(a, b) == a \o "/" \o b

\* core.util.get_youtube_url
get_youtube_url(video_id) == "https://www.youtube.com/watch?v=" \o video_id

suffix(vc) == ToString(vc.start_time_in_sec) \o "_" \o ToString(vc.end_time_in_sec)
video_stream_name(vc) == "video_stream_" \o vc.resolution \o ".mp4"
audio_stream_name(vc) == "audio_stream_" \o vc.resolution \o ".mp3"
combined_video_name(vc) == "combined_" \o vc.resolution \o ".mp4"
trimmed_video_name(vc) == suffix(vc) \o "_" \o vc.resolution \o ".mp4"

video_dir_of(videos_dir, vc) == path_join(videos_dir, vc.video_id)
video_stream_path(d, vc) == path_join(d, video_stream_name(vc))
audio_stream_path(d, vc) == path_join(d, audio_stream_name(vc))
combined_video_path(d, vc) == path_join(d, combined_video_name(vc))
trimmed_video_path(d, vc) == path_join(d, trimmed_video_name(vc))

\* the paths of the run in progress
video_dir == video_dir_of(app_directory_config, video_config)
VideoStreamPath == video_stream_path(video_dir, video_config)
AudioStreamPath == audio_stream_path(video_dir, video_config)
CombinedVideoPath == combined_video_path(video_dir, video_config)
TrimmedVideoPath == trimmed_video_path(video_dir, video_config)

NoDate == [year |-> 0, month |-> 0, day |-> 0]

(***************************************************************************)
(* Decisions of Driver.process.                                            *)
(***************************************************************************)
\* a driver that goes on without a working-directory config
HasVideosDir_Always(cfg) == TRUE

\* `self.app_directory_config.videos_dir` evaluates (no AttributeError)
HasVideosDir(cfg) == cfg # None

\* a directory creation that creates nothing
mkdir_Nothing(files, d) == files

\* os.mkdir(video_dir)
mkdir(files, d) == files \cup {d}

\* a download stage without its existence check
NeedDownload_Always(files, vpath, apath) == TRUE

\* `if not os.path.exists(video_stream_path) or not os.path.exists(audio_stream_path)`
NeedDownload(files, vpath, apath) == vpath \notin files \/ apath \notin files

\* the merge check with its negation lost
NeedJoin_Inverted(files, cpath) == cpath \in files

\* `if not os.path.exists(combined_video_path)`
NeedJoin(files, cpath) == cpath \notin files

\* `if not os.path.exists(trimmed_video_path)`
NeedTrim(files, tpath) == tpath \notin files

\* trim options whose duration is the length of the range
trim_options_Difference(start_time_in_sec, end_time_in_sec) ==
    [ss |-> start_time_in_sec, t |-> end_time_in_sec - start_time_in_sec]

\* the keyword arguments ss= and t= that trim_resource gives to ffmpeg.output
trim_options(start_time_in_sec, end_time_in_sec) ==
    [ss |-> start_time_in_sec, t |-> end_time_in_sec]

\* an upload of the merged instead of the trimmed artifact
upload_arguments_Combined(trimmed, combined, resolved_title) ==
    [video_path |-> combined, video_title |-> resolved_title]

\* the arguments process gives to upload_video_to_vimeo
upload_arguments(trimmed, combined, resolved_title) ==
    [video_path |-> trimmed, video_title |-> resolved_title]

\* a thumbnail check that forgets the image
AttachThumbnail_IgnoresImage(u, image) == u # None

\* `if uri is not None and image`
AttachThumbnail(u, image) == u # None /\ Truthy(image)

\* a handler that logs the PytubeError and does not raise it again
download_youtube_resources_swallows(exc) == IF exc = "PytubeError" THEN None ELSE exc

\* the exception that leaves download_youtube_resources when `exc` is raised
\* inside its try block: a PytubeError is logged and raised again, any other
\* exception is not caught
download_youtube_resources_raises(exc) == exc

\* the exception that leaves upload_video_to_vimeo when client.upload raises
\* `exc`: a VideoUploadFailure is logged and raised again
upload_video_to_vimeo_raises(exc) == exc

(***************************************************************************)
(* Outcomes of the external collaborators.  "ok" returns after writing the *)
(* output file, anything else is the exception raised.                     *)
(***************************************************************************)
DownloadOutcomes == {"ok", "PytubeError", "AttributeError"}
TranscodeOutcomes == {"ok", "ffmpeg.Error"}
UploadOutcomes == {"/videos/1", None, "VideoUploadFailure"}
RequestOutcomes == {"ok", "RequestException"}

Returned(r) == r = "ok"
Written(r, path) == IF r = "ok" THEN {path} ELSE {}

Call(op, args, result) == [op |-> op, args |-> args, result |-> result]

\* the valid values of a tkinter Button's `state` option
TkButtonStates == {"normal", "active", "disabled"}

(***************************************************************************)
(* Initial state: a driver that nobody configured, no run in progress, the *)
(* form showing its submit button, and local storage holding whatever an   *)
(* earlier session left behind for one request.                            *)
(***************************************************************************)
LeftOvers ==
    {{}} \cup
    UNION {
      LET d == video_dir_of(VideosDir, vc) IN
      {{d} \cup S : S \in SUBSET {video_stream_path(d, vc), audio_stream_path(d, vc),
                                  combined_video_path(d, vc), trimmed_video_path(d, vc)}}
      : vc \in VideoConfigurations }

Init ==
    /\ app_directory_config = None
    /\ fs \in LeftOvers
    /\ fs0 = fs
    /\ runs = 0
    /\ caller = None
    /\ pc = "idle"
    /\ video_config = NoRequest
    /\ today = NoDate
    /\ title = None
    /\ uri = None
    /\ calls = <<>>
    /\ error = None
    /\ process_button = [state |-> "normal", text |-> "Start processing"]
    /\ gui_pc = "ready"

(***************************************************************************)
(* Driver.process, step by step.                                           *)
(***************************************************************************)
NoRunInProgress == pc = "idle"

\* the exception `exc` leaves process
Raise(exc) ==
    /\ error' = exc
    /\ pc' = "raised"

\* process is entered with video_config = vc: the locals are read and the
\* title is sanitized
ProcessEnter(vc, who) ==
    /\ NoRunInProgress
    /\ runs < MaxRuns
    /\ runs' = runs + 1
    /\ caller' = who
    /\ video_config' = vc
    /\ IF TitleMissing(vc.video_title)
       THEN \E d \in Dates : today' = d /\ title' = DefaultTitle(d)
       ELSE today' = NoDate /\ title' = vc.video_title
    /\ fs0' = fs
    /\ uri' = None
    /\ calls' = <<>>
    /\ error' = None
    /\ pc' = "video_dir"
    /\ UNCHANGED fs

\* Driver.update_app_directory_config
update_app_directory_config ==
    /\ NoRunInProgress
    /\ app_directory_config' = VideosDir
    /\ UNCHANGED <<fs, fs0, runs, caller, pc, video_config, today, title, uri,
                   calls, error, process_button, gui_pc>>

\* a client calls process on the driver it holds
process ==
    /\ \E vc \in VideoConfigurations : ProcessEnter(vc, "client")
    /\ UNCHANGED <<app_directory_config, process_button, gui_pc>>

\* main: Driver(vimeo_config, None), then driver.process(video_config)
main ==
    /\ app_directory_config' = None
    /\ \E vc \in VideoConfigurations : ProcessEnter(vc, "main")
    /\ UNCHANGED <<process_button, gui_pc>>

\* video_dir is computed and created if absent
Process_VideoDir ==
    /\ pc = "video_dir"
    /\ IF ~HasVideosDir(app_directory_config)
       THEN Raise("AttributeError") /\ UNCHANGED fs
       ELSE IF video_dir \notin fs
            THEN \E created \in BOOLEAN :
                    IF created
                    THEN fs' = mkdir(fs, video_dir) /\ pc' = "download" /\ UNCHANGED error
                    ELSE Raise("OSError") /\ UNCHANGED fs
            ELSE pc' = "download" /\ UNCHANGED <<fs, error>>
    /\ UNCHANGED <<app_directory_config, fs0, runs, caller, video_config, today, title,
                   uri, calls, process_button, gui_pc>>

\* the download stage: download_youtube_resources unless both streams exist
Process_Download ==
    /\ pc = "download"
    /\ IF NeedDownload(fs, VideoStreamPath, AudioStreamPath)
       THEN \E rv \in DownloadOutcomes :
              LET cv == Call("video.download",
                             [url |-> get_youtube_url(video_config.video_id),
                              resolution |-> video_config.resolution,
                              download_path |-> video_dir,
                              filename |-> video_stream_name(video_config)], rv)
              IN
              IF ~Returned(rv)
              THEN /\ calls' = Append(calls, cv)
                   /\ UNCHANGED fs
                   /\ IF download_youtube_resources_raises(rv) # None
                      THEN Raise(download_youtube_resources_raises(rv))
                      ELSE pc' = "join" /\ UNCHANGED error
              ELSE \E ra \in DownloadOutcomes :
                     LET ca == Call("audio.download",
                                    [url |-> get_youtube_url(video_config.video_id),
                                     resolution |-> video_config.resolution,
                                     download_path |-> video_dir,
                                     filename |-> audio_stream_name(video_config)], ra)
                     IN
                     /\ calls' = calls \o <<cv, ca>>
                     /\ fs' = fs \cup Written(rv, VideoStreamPath)
                                 \cup Written(ra, AudioStreamPath)
                     /\ IF ~Returned(ra) /\ download_youtube_resources_raises(ra) # None
                        THEN Raise(download_youtube_resources_raises(ra))
                        ELSE pc' = "join" /\ UNCHANGED error
       ELSE pc' = "join" /\ UNCHANGED <<fs, calls, error>>
    /\ UNCHANGED <<app_directory_config, fs0, runs, caller, video_config, today, title,
                   uri, process_button, gui_pc>>

\* the merge stage: join_resource unless the merged artifact exists
Process_Join ==
    /\ pc = "join"
    /\ IF NeedJoin(fs, CombinedVideoPath)
       THEN \E r \in TranscodeOutcomes :
              /\ calls' = Append(calls, Call("join_resource",
                                             [video_path |-> VideoStreamPath,
                                              audio_path |-> AudioStreamPath,
                                              output_path |-> CombinedVideoPath], r))
              /\ fs' = fs \cup Written(r, CombinedVideoPath)
              /\ IF Returned(r) THEN pc' = "trim" /\ UNCHANGED error ELSE Raise(r)
       ELSE pc' = "trim" /\ UNCHANGED <<fs, calls, error>>
    /\ UNCHANGED <<app_directory_config, fs0, runs, caller, video_config, today, title,
                   uri, process_button, gui_pc>>

\* the trim stage: trim_resource unless the trimmed artifact exists
Process_Trim ==
    /\ pc = "trim"
    /\ IF NeedTrim(fs, TrimmedVideoPath)
       THEN \E r \in TranscodeOutcomes :
              /\ calls' = Append(calls, Call("trim_resource",
                                             [input_path |-> CombinedVideoPath,
                                              output_path |-> TrimmedVideoPath,
                                              options |-> trim_options(
                                                  video_config.start_time_in_sec,
                                                  video_config.end_time_in_sec)], r))
              /\ fs' = fs \cup Written(r, TrimmedVideoPath)
              /\ IF Returned(r) THEN pc' = "upload" /\ UNCHANGED error ELSE Raise(r)
       ELSE pc' = "upload" /\ UNCHANGED <<fs, calls, error>>
    /\ UNCHANGED <<app_directory_config, fs0, runs, caller, video_config, today, title,
                   uri, process_button, gui_pc>>

\* the upload stage: upload_video_to_vimeo (client.upload, then client.get)
Process_Upload ==
    /\ pc = "upload"
    /\ \E r \in UploadOutcomes :
         LET cu == Call("client.upload",
                        upload_arguments(TrimmedVideoPath, CombinedVideoPath, title), r)
         IN
         IF r = "VideoUploadFailure"
         THEN /\ calls' = Append(calls, cu)
              /\ UNCHANGED uri
              /\ IF upload_video_to_vimeo_raises(r) # None
                 THEN Raise(upload_video_to_vimeo_raises(r))
                 ELSE pc' = "thumbnail" /\ UNCHANGED error
         ELSE IF r = None
         THEN \* uri + '?fields=transcode.status' with uri None
              /\ calls' = Append(calls, cu)
              /\ UNCHANGED uri
              /\ Raise("TypeError")
         ELSE \E g \in RequestOutcomes :
                /\ calls' = calls \o <<cu, Call("client.get", [uri |-> r], g)>>
                /\ IF g = "ok"
                   THEN uri' = r /\ pc' = "thumbnail" /\ UNCHANGED error
                   ELSE Raise(g) /\ UNCHANGED uri
    /\ UNCHANGED <<app_directory_config, fs, fs0, runs, caller, video_config, today,
                   title, process_button, gui_pc>>

\* the thumbnail stage: client.upload_picture if a thumbnail was given
Process_Thumbnail ==
    /\ pc = "thumbnail"
    /\ IF AttachThumbnail(uri, video_config.image_url)
       THEN \E r \in RequestOutcomes :
              /\ calls' = Append(calls, Call("client.upload_picture",
                                             [uri |-> uri,
                                              image |-> video_config.image_url,
                                              activate |-> TRUE], r))
              /\ IF r = "ok" THEN pc' = "done" /\ UNCHANGED error ELSE Raise(r)
       ELSE pc' = "done" /\ UNCHANGED <<calls, error>>
    /\ UNCHANGED <<app_directory_config, fs, fs0, runs, caller, video_config, today,
                   title, uri, process_button, gui_pc>>

\* process is left, by its return or by the exception: its locals are gone
Process_Exit ==
    /\ pc \in {"done", "raised"}
    /\ caller # "gui"
    /\ pc' = "idle"
    /\ caller' = None
    /\ video_config' = NoRequest
    /\ today' = NoDate
    /\ title' = None
    /\ uri' = None
    /\ calls' = <<>>
    /\ error' = None
    /\ fs0' = fs
    /\ UNCHANGED <<app_directory_config, fs, runs, process_button, gui_pc>>

(***************************************************************************)
(* The desktop form.                                                       *)
(***************************************************************************)
\* process_video up to the call of driver.process: the button is disabled
\* and relabelled, a Driver is built from the credentials alone and process
\* is entered.  The form gives the Driver no working-directory config, so
\* what the driver holds is left open: none, or a directory.
process_video ==
    /\ gui_pc \in {"ready", "returned"}
    /\ process_button.state # "disabled"
    /\ process_button' = [state |-> "disabled", text |-> "Processing..."]
    /\ \E cfg \in {None, VideosDir} : app_directory_config' = cfg
    /\ \E vc \in VideoConfigurations : ProcessEnter(vc, "gui")
    /\ gui_pc' = "handler"

\* process_video after driver.process: if process raised, the handler is left
\* at once; if it returned, the button's state is set to 'enabled', which Tk
\* accepts only if it is a state of a Button, and then the label is changed
process_video_return ==
    /\ gui_pc = "handler"
    /\ pc \in {"done", "raised"}
    /\ IF pc = "done" /\ "enabled" \in TkButtonStates
       THEN process_button' = [state |-> "enabled", text |-> "Processing successful!"]
       ELSE UNCHANGED process_button
    /\ gui_pc' = "returned"
    /\ pc' = "idle"
    /\ caller' = None
    /\ video_config' = NoRequest
    /\ today' = NoDate
    /\ title' = None
    /\ uri' = None
    /\ calls' = <<>>
    /\ error' = None
    /\ fs0' = fs
    /\ UNCHANGED <<app_directory_config, fs, runs>>

\* the driver used from the command line or by a client holding it
Next ==
    \/ update_app_directory_config
    \/ process
    \/ main
    \/ Process_VideoDir
    \/ Process_Download
    \/ Process_Join
    \/ Process_Trim
    \/ Process_Upload
    \/ Process_Thumbnail
    \/ Process_Exit

Spec == Init /\ [][Next]_vars

\* the desktop form: every run of process is started by the submit handler
NextGui ==
    \/ process_video
    \/ process_video_return
    \/ Process_VideoDir
    \/ Process_Download
    \/ Process_Join
    \/ Process_Trim
    \/ Process_Upload
    \/ Process_Thumbnail

SpecGui == Init /\ [][NextGui]_vars

(***************************************************************************)
(* Properties.                                                             *)
(***************************************************************************)
InRun == pc # "idle"

CallsOf(op) == {i \in 1..Len(calls) : calls[i].op = op}
Count(op) == Cardinality(CallsOf(op))
Ops == [i \in 1..Len(calls) |-> calls[i].op]
IsPrefix(s, t) == Len(s) <= Len(t) /\ \A i \in 1..Len(s) : s[i] = t[i]

UploadFailed(r) == r \in {None, "VideoUploadFailure"}

\* C1: client.upload_picture is called only after client.upload of the same
\* run returned a resource URI, with that URI, and only when the request has
\* a non-empty thumbnail path; after a failed upload it is never called.
C1_ThumbnailOnlyAfterUpload ==
    /\ \A i \in CallsOf("client.upload_picture") :
         /\ Truthy(video_config.image_url)
         /\ calls[i].args.image = video_config.image_url
         /\ \E j \in 1..(i - 1) :
              /\ calls[j].op = "client.upload"
              /\ ~UploadFailed(calls[j].result)
              /\ calls[i].args.uri = calls[j].result
    /\ (\E j \in CallsOf("client.upload") : UploadFailed(calls[j].result))
         => CallsOf("client.upload_picture") = {}

C1_Witness ==
    /\ pc = "done"
    /\ CallsOf("client.upload_picture") # {}
    /\ video_config.image_url = "thumb.jpg"

\* the calls of a run that starts without artifacts and in which every call succeeds
FreshRunCalls ==
    <<"video.download", "audio.download", "join_resource", "trim_resource",
      "client.upload", "client.get"
    >> \o (IF Truthy(video_config.image_url) THEN <<"client.upload_picture">> ELSE <<>>)

NoArtifactAtStart ==
    {VideoStreamPath, AudioStreamPath, CombinedVideoPath, TrimmedVideoPath} \cap fs0 = {}

EveryCallSucceeded ==
    \A i \in 1..Len(calls) :
        IF calls[i].op = "client.upload" THEN ~UploadFailed(calls[i].result)
        ELSE calls[i].result = "ok"

\* C2: in a run that starts with none of the four artifacts and in which
\* every collaborator succeeds, the calls made so far are always an initial
\* part of: video download, audio download, merge, trim, upload (then the
\* status poll and the thumbnail); the finished run has made each of the five
\* once, and the upload got the trimmed path and the resolved title.
C2_FreshRunCallOrder ==
    (InRun /\ HasVideosDir(app_directory_config) /\ NoArtifactAtStart /\ EveryCallSucceeded)
    => /\ IsPrefix(Ops, FreshRunCalls)
       /\ pc = "done" =>
            /\ Ops = FreshRunCalls
            /\ calls[5].args = [video_path |-> TrimmedVideoPath, video_title |-> title]
            /\ calls[4].args.output_path = TrimmedVideoPath
            /\ {VideoStreamPath, AudioStreamPath, CombinedVideoPath, TrimmedVideoPath}
                 \subseteq fs

C2_Witness ==
    /\ pc = "done"
    /\ NoArtifactAtStart
    /\ EveryCallSucceeded
    /\ Len(calls) = 7

\* C3: a run that starts with the merged artifact on local storage never
\* calls join_resource, whatever the request and the other artifacts.
C3_MergeSkippedWhenMerged ==
    (InRun /\ CombinedVideoPath \in fs0) => Count("join_resource") = 0

C3_Witness ==
    /\ pc = "done"
    /\ CombinedVideoPath \in fs0
    /\ VideoStreamPath \notin fs0
    /\ TrimmedVideoPath \notin fs0

AllArtifactsAtStart ==
    {VideoStreamPath, AudioStreamPath, CombinedVideoPath, TrimmedVideoPath} \subseteq fs0

\* C4 as stated: each of download, merge, trim and upload is skipped when
\* its output already exists, so a run that starts with every artifact calls
\* none of the four stages' collaborators.
C4_EveryStageSkipped ==
    InRun =>
      /\ ({VideoStreamPath, AudioStreamPath} \subseteq fs0)
           => Count("video.download") + Count("audio.download") = 0
      /\ CombinedVideoPath \in fs0 => Count("join_resource") = 0
      /\ TrimmedVideoPath \in fs0 => Count("trim_resource") = 0
      /\ AllArtifactsAtStart => Count("client.upload") = 0

\* C4 amended: download is skipped when both streams exist, merge when the
\* merged artifact exists and trim when the trimmed artifact exists; upload
\* is never skipped: a run that gets past the upload stage has called
\* client.upload once, also when every artifact existed at its start.
C4_ArtifactStagesSkipped ==
    InRun =>
      /\ ({VideoStreamPath, AudioStreamPath} \subseteq fs0)
           => Count("video.download") + Count("audio.download") = 0
      /\ CombinedVideoPath \in fs0 => Count("join_resource") = 0
      /\ TrimmedVideoPath \in fs0 => Count("trim_resource") = 0
      /\ pc \in {"thumbnail", "done"} => Count("client.upload") = 1

C4_Witness ==
    /\ runs = 2
    /\ pc = "done"
    /\ AllArtifactsAtStart
    /\ Ops[1] = "client.upload"

\* C5: a download call is made only while the per-video working directory
\* exists; a run that found it absent has created it before its first
\* download call.
C5_DirectoryBeforeDownload ==
    [][(Count("video.download")' > Count("video.download")
        \/ Count("audio.download")' > Count("audio.download"))
       => (video_dir \in fs /\ video_dir \in fs')]_vars

C5_Witness ==
    /\ InRun
    /\ video_dir \notin fs0
    /\ Count("video.download") = 1
    /\ video_dir \in fs

StageOps == {"video.download", "audio.download", "client.upload"}

ExpectedDate(d) ==
    IF d = [year |-> 2026, month |-> 11, day |-> 1] THEN "11/01/26"
    ELSE IF d = [year |-> 2009, month |-> 3, day |-> 15] THEN "03/15/09"
    ELSE "?"

\* C7: the title given to client.upload is the request's title when that is
\* non-empty, and "(CW) " followed by today's date as MM/DD/YY when the
\* request's title is None or empty.
C7_UploadTitle ==
    \A i \in CallsOf("client.upload") :
        calls[i].args.video_title =
            (IF video_config.video_title \in {None, ""}
             THEN "(CW) " \o ExpectedDate(today)
             ELSE video_config.video_title)

C7_Witness ==
    /\ CallsOf("client.upload") # {}
    /\ video_config.video_title = ""
    /\ today.year = 2009

\* C8: once the submit handler is over, the submit button is enabled again.
C8_ButtonEnabledAfterSubmit ==
    gui_pc = "returned" => process_button.state # "disabled"

\* C9: trim_resource is given the merged artifact, ss = start second and
\* t = end second; t is end - start exactly when the start second is 0.
C9_TrimDurationIsEnd ==
    \A i \in CallsOf("trim_resource") :
        /\ calls[i].args.input_path = CombinedVideoPath
        /\ calls[i].args.options.ss = video_config.start_time_in_sec
        /\ calls[i].args.options.t = video_config.end_time_in_sec
        /\ (calls[i].args.options.t
              = video_config.end_time_in_sec - video_config.start_time_in_sec)
           <=> (video_config.start_time_in_sec = 0)

C9_Witness ==
    /\ CallsOf("trim_resource") # {}
    /\ video_config.start_time_in_sec = 1
    /\ video_config.end_time_in_sec = 1

\* C10: a run of process on a driver without working-directory config, as
\* every run started by main is, creates nothing and calls no collaborator;
\* it ends with the AttributeError of the directory computation.
C10_NoConfigNoStage ==
    /\ (InRun /\ app_directory_config = None) =>
         /\ calls = <<>>
         /\ fs = fs0
         /\ pc \in {"video_dir", "raised"}
         /\ pc = "raised" => error = "AttributeError"
    /\ (InRun /\ caller = "main") => app_directory_config = None

C10_Witness ==
    /\ caller = "main"
    /\ pc = "raised"
    /\ error = "AttributeError"
    /\ runs = 2

====
